---- MODULE Spec2Model ----
(***************************************************************************)
(* Model of the request handlers of dxr/app.py: the search handler, the    *)
(* cross-tree ("parallel") handler and the path resolver they share.       *)
(*                                                                         *)
(* Text is modelled by TLA+ strings (concatenation \o, slicing SubSeq), so *)
(* that formatting, prefix tests and slices are computed as the code       *)
(* computes them.  The collaborators the handlers call (connect_db, the    *)
(* Query engine, the file system) are inputs: their outcome is chosen in   *)
(* the initial state and consumed by the handler.                          *)
(***************************************************************************)
EXTENDS Integers, Sequences, FiniteSets, TLC

VARIABLES
    request,    \* the inbound request: route, <tree>, <path:path>, request.values
    engine,     \* what connect_db / Query.direct_result / Query.results will do
    disk,       \* the file system under the instance folder: path -> "file" | "dir"
    calls,      \* the collaborator calls made while handling the request, in order
    response    \* what the handler returned (or the failure that left it)

vars == <<request, engine, disk, calls, response>>

----------------------------------------------------------------------------
(* Bounds of the model.                                                    *)

\* longest result list the engine returns
MaxResults == 2

\* most line matches in one SearchResult
MaxLines == 2

\* largest `limit` a request asks for
MaxRequestedLimit == 5000

----------------------------------------------------------------------------
(* Python values and built-ins used by the handlers.                       *)

\* Python's None, as the value of an absent query parameter.
None == "<None>"

\* dict.get(key, default)
Get(d, key, default) == IF key \in DOMAIN d THEN d[key] ELSE default

\* d[key] = value on a dict
Put(d, key, value) ==
    [k \in DOMAIN d \cup {key} |-> IF k = key THEN value ELSE d[k]]

\* min(a, b)
Min(a, b) == IF a <= b THEN a ELSE b

\* x in list
Range(s) == {s[i] : i \in DOMAIN s}

\* str.startswith(prefix)
startswith(s, prefix) ==
    /\ Len(s) >= Len(prefix)
    /\ SubSeq(s, 1, Len(prefix)) = prefix

\* s[n:]
SliceFrom(s, n) == SubSeq(s, n + 1, Len(s))

Digits == "0123456789"

IsDigit(c) == \E i \in 1..10 : SubSeq(Digits, i, i) = c

DigitVal(c) == (CHOOSE i \in 1..10 : SubSeq(Digits, i, i) = c) - 1

\* '%i' % n
RECURSIVE NatToStr(_)
NatToStr(n) ==
    IF n < 10 THEN SubSeq(Digits, n + 1, n + 1)
    ELSE NatToStr(n \div 10) \o SubSeq(Digits, (n % 10) + 1, (n % 10) + 1)

IntToStr(n) == IF n < 0 THEN "-" \o NatToStr(-n) ELSE NatToStr(n)

----------------------------------------------------------------------------
(* The application's configuration (current_app.config, instance_path).    *)

config ==
    [WWW_ROOT |-> "/dxr",
     TREES |-> <<"mozilla", "nss">>,
     TEMPLATE_PARAMETERS |-> "template-parameters",
     GENERATED_DATE |-> "generated-date",
     DIRECTORY_INDEX |-> "index.html"]

instance_path == "/inst"

----------------------------------------------------------------------------
(* dxr.utils helpers.                                                      *)

IsIntText(s) ==
    LET body == IF startswith(s, "-") THEN SliceFrom(s, 1) ELSE s
    IN  /\ Len(body) > 0
        /\ \A i \in 1..Len(body) : IsDigit(SubSeq(body, i, i))

RECURSIVE ParseNat(_)
ParseNat(s) ==
    IF Len(s) = 0 THEN 0
    ELSE ParseNat(SubSeq(s, 1, Len(s) - 1)) * 10 + DigitVal(SubSeq(s, Len(s), Len(s)))

\* int(s) for a text IsIntText accepts
ParseInt(s) ==
    IF startswith(s, "-") THEN 0 - ParseNat(SliceFrom(s, 1)) ELSE ParseNat(s)

\* non_negative_int(s, default): max(int(s), 0) or default; the default when
\* s is absent or does not parse.
non_negative_int(s, default) ==
    IF s = None \/ ~IsIntText(s) THEN default
    ELSE LET n == ParseInt(s)
             m == IF n > 0 THEN n ELSE 0
         IN  IF m = 0 THEN default ELSE m

\* search_url(www_root, tree, query, redirect=...): the shareable search URL
search_url(www_root, tree, query, redirect) ==
    www_root \o "/" \o tree \o "/search?q=" \o query
        \o (IF redirect THEN "" ELSE "&redirect=false")

----------------------------------------------------------------------------
(* What a handler hands back to Flask.                                     *)

NoArguments == [k \in {} |-> ""]

\* no response yet: the request is still to be handled
NoResponse ==
    [kind |-> "none", status |-> 0, template |-> "", arguments |-> NoArguments,
     location |-> "", exc |-> ""]

\* flask.redirect(location)
redirect(location) ==
    [kind |-> "redirect", status |-> 302, template |-> "",
     arguments |-> NoArguments, location |-> location, exc |-> ""]

\* flask.jsonify(arguments), status
jsonify(arguments, status) ==
    [kind |-> "json", status |-> status, template |-> "",
     arguments |-> arguments, location |-> "", exc |-> ""]

\* flask.render_template(template, **arguments), status
render_template(template, arguments, status) ==
    [kind |-> "html", status |-> status, template |-> template,
     arguments |-> arguments, location |-> "", exc |-> ""]

\* an exception that leaves the handler uncaught
propagate(exc) ==
    [kind |-> "raise", status |-> 0, template |-> "", arguments |-> NoArguments,
     location |-> "", exc |-> exc]

----------------------------------------------------------------------------
(* search(tree): the pieces of the handler, in the order the code has them.*)

\* the HTTP status the handler itself sets, and the limits of line 55
NOT_FOUND == 404
SERVER_ERROR == 500
DEFAULT_LIMIT == 100
LIMIT_CAP == 1000

\* limit = min(non_negative_int(querystring.get('limit'), 100), 1000)
limit_uncapped(querystring) ==
    non_negative_int(Get(querystring, "limit", None), DEFAULT_LIMIT)

limit_of(querystring) ==
    Min(non_negative_int(Get(querystring, "limit", None), DEFAULT_LIMIT), LIMIT_CAP)

\* offset = non_negative_int(querystring.get('offset'), 0)
offset_of(querystring) ==
    non_negative_int(Get(querystring, "offset", None), 0)

\* the common template variables, then arguments['tree'] = tree for a valid tree
arguments_requested_tree(tree) ==
    [wwwroot |-> config.WWW_ROOT,
     tree |-> tree,
     trees |-> config.TREES,
     config |-> config.TEMPLATE_PARAMETERS,
     generated_date |-> config.GENERATED_DATE]

arguments_for(tree) ==
    LET arguments ==
            [wwwroot |-> config.WWW_ROOT,
             tree |-> config.TREES[1],
             trees |-> config.TREES,
             config |-> config.TEMPLATE_PARAMETERS,
             generated_date |-> config.GENERATED_DATE]
    IN  IF tree \in Range(config.TREES)
        THEN Put(arguments, "tree", tree)
        ELSE arguments

\* else-branch of `if tree in config['TREES']`
invalid_tree_unset_status(tree) ==
    [error |-> "Tree '" \o tree \o "' is not a valid tree.", status_code |-> 0]

invalid_tree(tree) ==
    [error |-> "Tree '" \o tree \o "' is not a valid tree.",
     status_code |-> NOT_FOUND]

\* `if conn:` on what connect_db returned
unchecked_connection(conn) == TRUE

connected(conn) == conn

\* the redirect to a direct result
direct_result_url(tree, path, qtext, is_case_sensitive, line) ==
    config.WWW_ROOT \o "/" \o tree \o "/source/" \o path \o "?from=" \o qtext
        \o (IF is_case_sensitive THEN "&case=true" ELSE "")
        \o "#" \o IntToStr(line)

\* the except clause around q.results(): the message decides warning or error
classify(message) ==
    IF startswith(message, "REGEXP:")
    THEN [warning |-> SliceFrom(message, 7), error |-> ""]
    ELSE IF startswith(message, "QUERY:")
    THEN [warning |-> SliceFrom(message, 6), error |-> ""]
    ELSE [warning |-> "", error |-> "Database error: " \o message]

\* the records the JSON format makes of the (icon, path, lines) tuples
json_results_swapped(results) ==
    [i \in 1..Len(results) |->
        [icon |-> results[Len(results) + 1 - i][1],
         path |-> results[Len(results) + 1 - i][2],
         lines |-> [j \in 1..Len(results[Len(results) + 1 - i][3]) |->
                       [line_number |-> results[Len(results) + 1 - i][3][j][1],
                        line |-> results[Len(results) + 1 - i][3][j][2]]]]]

json_results(results) ==
    [i \in 1..Len(results) |->
        [icon |-> results[i][1],
         path |-> results[i][2],
         lines |-> [j \in 1..Len(results[i][3]) |->
                       [line_number |-> results[i][3][j][1],
                        line |-> results[i][3][j][2]]]]]

\* `status_code or 500`
status_or_500(status_code) ==
    IF status_code # 0 THEN status_code ELSE SERVER_ERROR

\* the page rendered when the format is not json
page_response_warning_as_error(error, warning, arguments, status_code) ==
    IF error # "" \/ warning # ""
    THEN render_template("error.html", arguments, status_or_500(status_code))
    ELSE render_template("search.html", arguments, 200)

page_response(error, warning, arguments, status_code) ==
    IF error # ""
    THEN render_template("error.html", arguments, status_or_500(status_code))
    ELSE render_template("search.html", arguments, 200)

\* from `if warning or error:` to the end of the handler
finish(querystring, arguments, error, warning, status_code) ==
    LET arguments1 ==
            IF warning # "" \/ error # ""
            THEN Put(arguments, "error", IF error # "" THEN error ELSE warning)
            ELSE arguments
    IN  IF Get(querystring, "format", None) = "json"
        THEN IF error # ""
             THEN jsonify(arguments1, status_or_500(status_code))
             ELSE jsonify(Put(arguments1, "results",
                              json_results(arguments1.results)), 200)
        ELSE page_response(error, warning, arguments1, status_code)

\* "Return multiple results": q.results(offset, limit) under the try
full_search(tree, querystring, qtext, is_case_sensitive, offset, limit, arguments, made) ==
    LET made1 == Append(made, <<"results", offset, limit>>)
        out == engine.results
    IN  IF out.kind = "raise" /\ out.exc # "OperationalError"
        THEN [response |-> propagate(out.exc), calls |-> made1]
        ELSE LET c == IF out.kind = "raise"
                      THEN classify(out.message)
                      ELSE [warning |-> "", error |-> ""]
                 results == IF out.kind = "raise" THEN <<>> ELSE out.value
                 arguments1 ==
                     IF c.error = ""
                     THEN [k \in DOMAIN arguments \cup
                                 {"time", "query", "search_url", "results",
                                  "offset", "limit", "is_case_sensitive"} |->
                             CASE k = "time" -> "elapsed"
                               [] k = "query" -> qtext
                               [] k = "search_url" ->
                                    search_url(arguments.wwwroot, arguments.tree,
                                               qtext, FALSE)
                               [] k = "results" -> results
                               [] k = "offset" -> offset
                               [] k = "limit" -> limit
                               [] k = "is_case_sensitive" -> is_case_sensitive
                               [] OTHER -> arguments[k]]
                     ELSE arguments
             IN  [response |-> finish(querystring, arguments1, c.error,
                                      c.warning, 0),
                  calls |-> made1]

\* the body of `if conn:`
with_connection(tree, querystring, offset, limit, arguments, made) ==
    LET qtext == Get(querystring, "q", "")
        is_case_sensitive == Get(querystring, "case", None) = "true"
        made1 == Append(made, <<"Query", qtext, "explain" \in DOMAIN querystring,
                                is_case_sensitive>>)
        made2 == Append(made1, <<"direct_result">>)
    IN  IF Get(querystring, "redirect", None) = "true"
        THEN IF engine.direct.kind = "raise"
             THEN [response |-> propagate(engine.direct.exc), calls |-> made2]
             ELSE IF engine.direct.found
             THEN [response |-> redirect(direct_result_url(
                                    tree, engine.direct.path, qtext,
                                    is_case_sensitive, engine.direct.line)),
                   calls |-> made2]
             ELSE full_search(tree, querystring, qtext, is_case_sensitive,
                              offset, limit, arguments, made2)
        ELSE full_search(tree, querystring, qtext, is_case_sensitive,
                         offset, limit, arguments, made1)

\* search(tree): the response and the collaborator calls made for it
search(tree) ==
    LET querystring == request.values
        offset == offset_of(querystring)
        limit == limit_of(querystring)
        arguments == arguments_for(tree)
    IN  IF tree \in Range(config.TREES)
        THEN LET made == << <<"connect_db", tree, instance_path>> >>
             IN  IF connected(engine.conn)
                 THEN with_connection(tree, querystring, offset, limit,
                                      arguments, made)
                 ELSE [response |->
                          finish(querystring, arguments,
                                 "Failed to establish database connection.",
                                 "", 0),
                       calls |-> made]
        ELSE [response |-> finish(querystring, arguments,
                                  invalid_tree(tree).error, "",
                                  invalid_tree(tree).status_code),
              calls |-> << >>]

----------------------------------------------------------------------------
(* os.path on the modelled file system.                                    *)

\* str.endswith(suffix)
endswith(s, suffix) ==
    /\ Len(s) >= Len(suffix)
    /\ SubSeq(s, Len(s) - Len(suffix) + 1, Len(s)) = suffix

\* os.path.join(a, b)
join(a, b) ==
    IF startswith(b, "/") THEN b
    ELSE IF a = "" \/ endswith(a, "/") THEN a \o b
    ELSE a \o "/" \o b

\* a path without its trailing slashes, as the file system looks it up
RECURSIVE StripSlashes(_)
StripSlashes(p) ==
    IF Len(p) > 1 /\ endswith(p, "/")
    THEN StripSlashes(SubSeq(p, 1, Len(p) - 1))
    ELSE p

\* os.path.dirname(p)
RECURSIVE dirname(_)
dirname(p) ==
    IF Len(p) = 0 \/ endswith(p, "/")
    THEN StripSlashes(p)
    ELSE dirname(SubSeq(p, 1, Len(p) - 1))

\* what the file system holds at p: "none", "file" or "dir"
KindAt(p) ==
    LET key == StripSlashes(p)
    IN  IF key \in DOMAIN disk THEN disk[key] ELSE "none"

\* os.path.isdir(p)
isdir(p) == KindAt(p) = "dir"

\* os.path.isfile(p): a trailing slash never names a regular file
isfile(p) == ~endswith(p, "/") /\ KindAt(p) = "file"

----------------------------------------------------------------------------
(* The path resolver and the cross-tree handler.                           *)

\* _tree_folder(tree)
_tree_folder(tree) == join(join(instance_path, "trees"), tree)

\* _html_file_path(tree_folder, url_path)
html_suffix_always(tree_folder, url_path) == url_path \o ".html"

_html_file_path(tree_folder, url_path) ==
    IF isdir(join(tree_folder, url_path))
    THEN join(url_path, config.DIRECTORY_INDEX)
    ELSE url_path \o ".html"

\* parallel(tree, path)
parallel(tree, path) ==
    LET tree_folder == _tree_folder(tree)
        disk_path == _html_file_path(tree_folder, path)
        www_root == config.WWW_ROOT
    IN  IF isfile(join(tree_folder, disk_path))
        THEN redirect(www_root \o "/" \o tree \o "/source/" \o path)
        ELSE redirect(www_root \o "/" \o tree \o "/source/")

----------------------------------------------------------------------------
(* The inputs: requests, and what the collaborators do for them.           *)

\* <tree> of the route: the registered trees and one that is not
TreeNames == Range(config.TREES) \cup {"bogus"}

\* request.values, from one choice per parameter (None: the parameter is absent)
MkValues(c) == [k \in {x \in DOMAIN c : c[x] # None} |-> c[k]]

NoValues == [k \in {} |-> ""]

QTexts == {None, "foo", "a#b", "x&case=true"}
CaseValues == {None, "true", "True"}
RedirectValues == {None, "true"}
FormatValues == {None, "json"}
ExplainValues == {None, "1"}

\* every integer text from "-2" up, and texts that are no integer
LimitTexts ==
    {IntToStr(n) : n \in -2..MaxRequestedLimit} \cup {None, "", "abc", "-"}

SearchRequest(tree, c) ==
    [route |-> "search", tree |-> tree, path |-> "", values |-> MkValues(c)]

ParallelRequest(tree, path) ==
    [route |-> "parallel", tree |-> tree, path |-> path, values |-> NoValues]

\* Query.direct_result(): None, a (path, line) pair, or a failure
DirectNone ==
    [kind |-> "return", found |-> FALSE, path |-> "", line |-> 0,
     exc |-> "", message |-> ""]

DirectHit ==
    [kind |-> "return", found |-> TRUE, path |-> "lib/a.c", line |-> 12,
     exc |-> "", message |-> ""]

DirectFailure ==
    [kind |-> "raise", found |-> FALSE, path |-> "", line |-> 0,
     exc |-> "OperationalError", message |-> "disk I/O error"]

DirectOutcomes == {DirectNone, DirectHit, DirectFailure}

\* Query.results(offset, limit): a list of (icon, path, lines), or a failure
Returned(value) ==
    [kind |-> "return", value |-> value, exc |-> "", message |-> ""]

Raised(exc, message) ==
    [kind |-> "raise", value |-> << >>, exc |-> exc, message |-> message]

Messages ==
    {"REGEXP:", "REGEXP:missing )", "QUERY:", "QUERY:bad term", "REGEXP",
     "disk I/O error"}

Failures ==
    {Raised("OperationalError", m) : m \in Messages}
        \cup {Raised("ValueError", "REGEXP:x")}

\* the lists of at most n different members of S
SeqsUpTo(S, n) ==
    UNION {{q \in [1..k -> S] : \A i, j \in 1..k : i # j => q[i] # q[j]} :
              k \in 0..n}

LineMatches == {<<i, IF i % 2 = 1 THEN "int x;" ELSE "x = 1;">> : i \in 1..MaxLines}

SearchResults ==
    {<<icon, path, lines>> :
        icon \in {"c"}, path \in {"lib/a.c"},
        lines \in SeqsUpTo(LineMatches, MaxLines)}

ResultLists == SeqsUpTo(SearchResults, MaxResults)

SampleLists ==
    { << >>,
      << <<"c", "lib/a.c", << <<1, "int x;">>, <<2, "x = 1;">> >> >>,
         <<"h", "b.c", << <<7, "x">> >> >> >> }

Engines(directs, results) ==
    [conn : BOOLEAN, direct : directs, results : results]

\* the file system: nothing, as far as a search is concerned
NoDisk == [p \in {} |-> "none"]

\* the paths a tree's folder may hold, and their consistent states
UrlPaths == {"", "lib", "lib/", "lib/a.c"}

Nodes(tree) ==
    {_tree_folder(tree) \o n :
        n \in {"", "/index.html", "/lib", "/lib.html", "/lib/index.html",
               "/lib/a.c", "/lib/a.c.html", "/lib/a.c/index.html"}}

Disks(tree) ==
    {d \in [Nodes(tree) -> {"none", "file", "dir"}] :
        \A p \in Nodes(tree) \ {_tree_folder(tree)} :
            d[p] # "none" => d[dirname(p)] = "dir"}

----------------------------------------------------------------------------
(* The state machine: a request arrives, its handler answers it.           *)

InitSearch ==
    /\ \E tree \in TreeNames, q \in QTexts, cs \in CaseValues,
          rd \in RedirectValues, fmt \in FormatValues, ex \in ExplainValues :
          request = SearchRequest(tree,
                        [q |-> q, case |-> cs, redirect |-> rd, format |-> fmt,
                         explain |-> ex])
    /\ engine \in Engines(DirectOutcomes,
                          {Returned(l) : l \in SampleLists} \cup Failures)
    /\ disk = NoDisk
    /\ calls = << >>
    /\ response = NoResponse

InitParallel ==
    /\ \E tree \in TreeNames, path \in UrlPaths :
          /\ request = ParallelRequest(tree, path)
          /\ disk \in Disks(tree)
    /\ engine = [conn |-> FALSE, direct |-> DirectNone, results |-> Returned(<< >>)]
    /\ calls = << >>
    /\ response = NoResponse

Init == InitSearch \/ InitParallel

\* @dxr_blueprint.route('/<tree>/search')
Search ==
    /\ request.route = "search"
    /\ response = NoResponse
    /\ LET r == search(request.tree)
       IN  /\ response' = r.response
           /\ calls' = r.calls
    /\ UNCHANGED <<request, engine, disk>>

\* @dxr_blueprint.route('/<tree>/parallel/<path:path>')
Parallel ==
    /\ request.route = "parallel"
    /\ response = NoResponse
    /\ response' = parallel(request.tree, request.path)
    /\ UNCHANGED <<request, engine, disk, calls>>

Next == Search \/ Parallel

Spec == Init /\ [][Next]_vars

\* the pagination window, over every requested limit and offset
InitLimit ==
    /\ \E lim \in LimitTexts, off \in {None, "-1", "7"}, fmt \in FormatValues :
          request = SearchRequest("mozilla",
                        [q |-> "foo", limit |-> lim, offset |-> off,
                         format |-> fmt])
    /\ engine \in [conn : {TRUE}, direct : {DirectNone},
                   results : {Returned(<< >>)}]
    /\ disk = NoDisk
    /\ calls = << >>
    /\ response = NoResponse

SpecLimit == InitLimit /\ [][Search]_vars

\* the structured format, over every result list within the bounds
InitJson ==
    /\ \E tree \in TreeNames, rd \in RedirectValues :
          request = SearchRequest(tree,
                        [q |-> "foo", redirect |-> rd, format |-> "json"])
    /\ engine \in Engines({DirectNone, DirectHit},
                          {Returned(l) : l \in ResultLists \cup SampleLists}
                              \cup Failures)
    /\ disk = NoDisk
    /\ calls = << >>
    /\ response = NoResponse

SpecJson == InitJson /\ [][Search]_vars

----------------------------------------------------------------------------
(* Vocabulary of the properties.                                           *)

IsSearch == request.route = "search"

Handled == response.kind # "none"

Registered == request.tree \in Range(config.TREES)

WantsJson == Get(request.values, "format", None) = "json"

WantsRedirect == Get(request.values, "redirect", None) = "true"

Called(op) == \E i \in DOMAIN calls : calls[i][1] = op

\* the failure classes of the engine's results call, read off the inputs
ResultsFailed ==
    engine.results.kind = "raise" /\ engine.results.exc = "OperationalError"

RegexSignal == ResultsFailed /\ startswith(engine.results.message, "REGEXP:")

SyntaxSignal == ResultsFailed /\ startswith(engine.results.message, "QUERY:")

\* the ResponseState of a request that got a page or a payload
ResponseState ==
    IF ~Registered \/ ~engine.conn THEN "Error"
    ELSE IF RegexSignal \/ SyntaxSignal THEN "Warning"
    ELSE IF ResultsFailed THEN "Error"
    ELSE "Success"

----------------------------------------------------------------------------
(* Properties of the search handler.                                       *)

\* C1: a search on a tree that is not registered is answered with status 404,
\* as a payload or as a page, and no collaborator (connect_db, Query,
\* direct_result, results) is called while handling it.
C1_UnknownTree404 ==
    (IsSearch /\ Handled /\ ~Registered) =>
        /\ response.kind = (IF WantsJson THEN "json" ELSE "html")
        /\ response.status = 404
        /\ calls = << >>

\* C1 happens: an unregistered tree, json requested, an engine that would answer
C1_Witness ==
    /\ IsSearch /\ Handled /\ ~Registered /\ WantsJson /\ WantsRedirect
    /\ engine.conn /\ engine.direct.found
    /\ response.status = 404

\* C2: a search on a registered tree whose connection cannot be made ends as
\* an Error with status 500 in both formats, and after connect_db nothing of
\* the Query engine is called, redirect=true or not.
C2_NoConnection500 ==
    (IsSearch /\ Handled /\ Registered /\ ~engine.conn) =>
        /\ response.kind = (IF WantsJson THEN "json" ELSE "html")
        /\ response.status = 500
        /\ WantsJson => "results" \notin DOMAIN response.arguments
        /\ ~WantsJson => response.template = "error.html"
        /\ "error" \in DOMAIN response.arguments
        /\ ~Called("Query") /\ ~Called("direct_result") /\ ~Called("results")

\* C2 happens: no connection although a direct result was asked for
C2_Witness ==
    /\ IsSearch /\ Handled /\ Registered /\ ~engine.conn /\ WantsRedirect
    /\ engine.direct.found
    /\ response.status = 500 /\ Called("connect_db")

\* C3: in page mode, whenever results fails with a message that begins with
\* "REGEXP:" (whatever follows, nothing included), the page has an empty
\* result list, a non-empty message in its error field, and status 200.
C3_RegexWarningShown ==
    (IsSearch /\ Handled /\ Registered /\ engine.conn /\ ~WantsJson
        /\ Called("results") /\ RegexSignal) =>
        /\ response.kind = "html"
        /\ response.status = 200
        /\ "results" \in DOMAIN response.arguments
        /\ response.arguments.results = << >>
        /\ "error" \in DOMAIN response.arguments
        /\ response.arguments.error # ""

\* C4: whatever the engine raises, in direct_result or in results, the handler
\* turns it into a response: no failure leaves the handler.
C4_NothingPropagates ==
    (IsSearch /\ Handled) => response.kind \in {"redirect", "json", "html"}

C10_TreeIsRegistered ==
    (IsSearch /\ Handled /\ response.kind \in {"json", "html"}) =>
        /\ response.arguments.tree \in Range(config.TREES)
        /\ Registered => response.arguments.tree = request.tree
        /\ ~Registered =>
              /\ response.arguments.tree = config.TREES[1]
              /\ response.arguments.tree # request.tree

\* C10 happens: an unregistered tree answered with the default tree
C10_Witness ==
    /\ IsSearch /\ Handled /\ ~Registered
    /\ response.kind = "json"
    /\ response.arguments.tree = "mozilla"

\* the limit the request asked for, as text (None when absent)
RequestedLimit == Get(request.values, "limit", None)

\* min(max(limit, 0) or default, 1000), on the requested number
ClampedLimit(n) ==
    LET m == IF n > 0 THEN n ELSE 0
        d == IF m = 0 THEN DEFAULT_LIMIT ELSE m
    IN  IF d > LIMIT_CAP THEN LIMIT_CAP ELSE d

\* the requested limit is the decimal text of the number n
LimitIs(n) == RequestedLimit # None /\ RequestedLimit = IntToStr(n)

\* the number the requested limit is the decimal text of, when it is one
LimitNumber ==
    IF RequestedLimit # None /\ IsIntText(RequestedLimit)
    THEN ParseInt(RequestedLimit)
    ELSE 0

\* the limit results() was called with
PassedLimit == (CHOOSE c \in Range(calls) : c[1] = "results")[3]

\* C5: the limit passed to results() and echoed in the response is
\* min(max(limit, 0) or 100, 1000): 1000 for a limit above 1000 (5000), 100
\* for an absent or non-numeric limit and for 0 or a negative one; it is
\* always within 0..1000.
C5_EffectiveLimit ==
    (IsSearch /\ Handled /\ Called("results")
        /\ "limit" \in DOMAIN response.arguments) =>
        /\ response.arguments.limit = PassedLimit
        /\ PassedLimit \in 0..1000
        /\ IF LimitIs(LimitNumber)
           THEN PassedLimit = ClampedLimit(LimitNumber)
           ELSE PassedLimit = DEFAULT_LIMIT
        /\ RequestedLimit = "5000" => PassedLimit = 1000
        /\ RequestedLimit \in {None, "", "abc", "-"} => PassedLimit = 100
        /\ RequestedLimit \in {"0", "-1", "-2"} => PassedLimit = 100
        /\ RequestedLimit = "1000" => PassedLimit = 1000
        /\ RequestedLimit = "999" => PassedLimit = 999

\* C5 happens: limit=5000 answered with the limit 1000
C5_Witness ==
    /\ IsSearch /\ Handled /\ RequestedLimit = "5000"
    /\ Called("results") /\ PassedLimit = 1000
    /\ response.arguments.limit = 1000

\* the list results() returned (none when it failed)
EngineResults ==
    IF engine.results.kind = "return" THEN engine.results.value ELSE << >>

\* C6: a json payload of a request in the Error state has no `results`;
\* every other json payload has status 200 and a `results` list with one
\* {icon, path, lines} record per result of the engine, in the engine's order,
\* the lines of each as {line_number, line} in their order.
C6_JsonResults ==
    (IsSearch /\ Handled /\ WantsJson) =>
        /\ response.kind \in {"json", "redirect", "raise"}
        /\ response.kind = "json" =>
              IF ResponseState = "Error"
              THEN "results" \notin DOMAIN response.arguments
              ELSE /\ response.status = 200
                   /\ "results" \in DOMAIN response.arguments
                   /\ LET rs == response.arguments.results
                      IN  /\ Len(rs) = Len(EngineResults)
                          /\ \A i \in 1..Len(rs) :
                                /\ DOMAIN rs[i] = {"icon", "path", "lines"}
                                /\ rs[i].icon = EngineResults[i][1]
                                /\ rs[i].path = EngineResults[i][2]
                                /\ Len(rs[i].lines) = Len(EngineResults[i][3])
                                /\ \A j \in 1..Len(rs[i].lines) :
                                      /\ DOMAIN rs[i].lines[j] =
                                            {"line_number", "line"}
                                      /\ rs[i].lines[j].line_number =
                                            EngineResults[i][3][j][1]
                                      /\ rs[i].lines[j].line =
                                            EngineResults[i][3][j][2]

\* C6 happens: a payload of two different results, the first with two lines
C6_Witness ==
    /\ IsSearch /\ Handled /\ WantsJson /\ response.kind = "json"
    /\ response.status = 200
    /\ Len(response.arguments.results) = 2
    /\ response.arguments.results[1] # response.arguments.results[2]
    /\ Len(response.arguments.results[1].lines) = 2

----------------------------------------------------------------------------
(* A URL as its receiver reads it: path ? parameters # fragment.           *)

\* the place of the first c in s, 0 when there is none
FirstAt(s, c) ==
    IF \E i \in 1..Len(s) : SubSeq(s, i, i) = c
    THEN CHOOSE i \in 1..Len(s) :
            /\ SubSeq(s, i, i) = c
            /\ \A j \in 1..(i - 1) : SubSeq(s, j, j) # c
    ELSE 0

Before(s, c) == IF FirstAt(s, c) = 0 THEN s ELSE SubSeq(s, 1, FirstAt(s, c) - 1)

After(s, c) ==
    IF FirstAt(s, c) = 0 THEN "" ELSE SubSeq(s, FirstAt(s, c) + 1, Len(s))

UrlFragment(u) == After(u, "#")

UrlPath(u) == Before(Before(u, "#"), "?")

UrlQuery(u) == After(Before(u, "#"), "?")

RECURSIVE Pieces(_, _)
Pieces(s, c) ==
    IF FirstAt(s, c) = 0 THEN {s} ELSE {Before(s, c)} \cup Pieces(After(s, c), c)

\* the parameters of a URL, as (name, value) pairs
UrlParams(u) == {<<Before(p, "="), After(p, "=")>> : p \in Pieces(UrlQuery(u), "&")}

----------------------------------------------------------------------------
(* Properties of the direct-result redirect and of cross-tree navigation.  *)

DirectFound == engine.direct.kind = "return" /\ engine.direct.found

\* the calls around a direct result: the response is a redirect exactly when
\* one was asked for and found, results() is then not called, it is called
\* when none was found, and direct_result() is not called unasked.
DirectResultFlow ==
    (IsSearch /\ Handled /\ Registered /\ engine.conn) =>
        /\ response.kind = "redirect" <=> (WantsRedirect /\ DirectFound)
        /\ response.kind = "redirect" => ~Called("results")
        /\ (WantsRedirect /\ engine.direct.kind = "return" /\ ~DirectFound)
              => Called("results")
        /\ ~WantsRedirect => ~Called("direct_result")

\* C7: on a registered tree with a connection, the response is a redirect
\* exactly when redirect was requested and direct_result found a match; the
\* redirect goes to the browse view of the matched path in the requested tree,
\* with the matched line as its fragment, the query text as a parameter and
\* the case flag as a parameter exactly when the search is case-sensitive,
\* and results() is not called; results() is called when nothing was found,
\* and direct_result() is not called when redirect was not requested.
C7_DirectRedirect ==
    (IsSearch /\ Handled /\ Registered /\ engine.conn) =>
        /\ DirectResultFlow
        /\ response.kind = "redirect" =>
              /\ UrlPath(response.location) =
                    config.WWW_ROOT \o "/" \o request.tree \o "/source/"
                        \o engine.direct.path
              /\ UrlFragment(response.location) = IntToStr(engine.direct.line)
              /\ <<"from", Get(request.values, "q", "")>>
                    \in UrlParams(response.location)
              /\ (\E p \in UrlParams(response.location) : p[1] = "case")
                    <=> (Get(request.values, "case", None) = "true")

\* the artifact the path resolver names for the requested path, read off the
\* file system: the directory index under a directory, the .html file otherwise
Artifact ==
    LET folder == instance_path \o "/trees/" \o request.tree
        target == IF request.path = "" THEN folder
                  ELSE folder \o "/" \o request.path
    IN  IF KindAt(target) = "dir"
        THEN folder \o "/"
                \o (IF request.path = "" THEN ""
                    ELSE StripSlashes(request.path) \o "/")
                \o config.DIRECTORY_INDEX
        ELSE folder \o "/" \o request.path \o ".html"

PathPreserved ==
    response.location =
        config.WWW_ROOT \o "/" \o request.tree \o "/source/" \o request.path

BareRoot ==
    response.location = config.WWW_ROOT \o "/" \o request.tree \o "/source/"

====
